---- MODULE Spec2Model ----
(***************************************************************************)
(* disk-cleaner: the cancellable scan worker (App::start_scan), the        *)
(* foreground loop that folds its events into the result list (main), and  *)
(* the key handler that drives the selection / deletion workflow           *)
(* (App::handle_key_event, App::move_dirs_to_trash).                        *)
(***************************************************************************)
EXTENDS Integers, Sequences, FiniteSets, TLC

VARIABLES
    tree,             \* which directory tree lies under current_directory (fixed during a run)
    overflow_checks,  \* the build profile: TRUE = arithmetic overflow panics, FALSE = it wraps
    app,              \* the App struct, owned by the foreground loop
    workers,          \* the scan threads spawned so far, each with its end of its channel
    observed,         \* history: the ScanUpdate values the foreground loop has received
    trash_calls       \* history: every trash::delete call, with its outcome

vars == <<tree, overflow_checks, app, workers, observed, trash_calls>>

(***************************************************************************)
(* Option<T>.                                                              *)
(***************************************************************************)
None == [some |-> FALSE]
Some(v) == [some |-> TRUE, val |-> v]

(***************************************************************************)
(* u64 arithmetic on four 16-bit limbs, least significant first: the epoch *)
(* seconds of app.rs:139-152 do not fit the checker's integers.            *)
(***************************************************************************)
Base == 256 * 256

\* A value below 2^31 as a u64.
U64(n) == <<n % Base, n \div Base, 0, 0>>

RECURSIVE SubBorrow(_, _, _)
\* The borrow out of limb i of a - b.
SubBorrow(a, b, i) ==
    IF i = 0 THEN 0
    ELSE IF a[i] - b[i] - SubBorrow(a, b, i - 1) < 0 THEN 1 ELSE 0

\* a - b, or 0 when b is greater (a saturating subtraction).
SaturatingSub(a, b) ==
    IF SubBorrow(a, b, 4) = 1 THEN <<0, 0, 0, 0>>
    ELSE [i \in 1..4 |-> (a[i] - b[i] - SubBorrow(a, b, i - 1) + Base) % Base]

\* a - b modulo 2^64 (the release profile's subtraction).
WrappingSub(a, b) ==
    [i \in 1..4 |-> (a[i] - b[i] - SubBorrow(a, b, i - 1) + Base) % Base]

\* a < b as u64: the subtraction a - b overflows.
U64Less(a, b) == SubBorrow(a, b, 4) = 1

RECURSIVE DivRem(_, _, _)
\* The remainder of the limbs i..4 of a divided by d (d <= 2^15).
DivRem(a, d, i) ==
    IF i > 4 THEN 0 ELSE (DivRem(a, d, i + 1) * Base + a[i]) % d

\* floor(a / d) for a divisor d <= 2^15, by long division.
DivSmall(a, d) ==
    [i \in 1..4 |-> (DivRem(a, d, i + 1) * Base + a[i]) \div d]

SecondsPerDay == 24 * 60 * 60

\* a / (24 * 60 * 60): 86400 = 128 * 675, and floor(floor(a/128)/675) = floor(a/86400).
DivSecondsPerDay(a) == DivSmall(DivSmall(a, 128), SecondsPerDay \div 128)

\* `days_ago as u32`: the low 32 bits.
AsU32(a) == a[1] + Base * a[2]

\* a > n as u64, for n below 2^16.
U64Greater(a, n) == a[2] # 0 \/ a[3] # 0 \/ a[4] # 0 \/ a[1] > n

(***************************************************************************)
(* glob::Pattern, on names written as sequences of characters.             *)
(***************************************************************************)
\* The position of the first c in s at or after i, or 0.
RECURSIVE IndexFrom(_, _, _)
IndexFrom(s, c, i) ==
    IF i > Len(s) THEN 0 ELSE IF s[i] = c THEN i ELSE IndexFrom(s, c, i + 1)

\* The number of consecutive "*" in p from position i.
RECURSIVE StarRun(_, _)
StarRun(p, i) ==
    IF i <= Len(p) /\ p[i] = "*" THEN 1 + StarRun(p, i + 1) ELSE 0

IsSeparator(c) == c = "/"

\* Pattern::new(p).is_ok(): every "[" is closed, a run of "*" is at most two
\* long, and "**" forms a whole path component.
RECURSIVE PatternCompilesFrom(_, _)
PatternCompilesFrom(p, i) ==
    IF i > Len(p) THEN TRUE
    ELSE IF p[i] = "*" THEN
        LET n == StarRun(p, i) IN
        IF n > 2 THEN FALSE
        ELSE IF n = 2 THEN
            /\ (i = 1 \/ IsSeparator(p[i - 1]))
            /\ (i + 2 > Len(p) \/ IsSeparator(p[i + 2]))
            /\ PatternCompilesFrom(p, i + 2)
        ELSE PatternCompilesFrom(p, i + 1)
    ELSE IF p[i] = "[" THEN
        LET from == IF i + 1 <= Len(p) /\ p[i + 1] = "!" THEN i + 3 ELSE i + 2
            close == IndexFrom(p, "]", from)
        IN  close # 0 /\ PatternCompilesFrom(p, close + 1)
    ELSE PatternCompilesFrom(p, i + 1)

PatternNewIsOk(p) == PatternCompilesFrom(p, 1)

\* Pattern::matches(name) for a compiled pattern of literals, "?", "*" and
\* character classes without ranges, from positions i of p and j of s.
RECURSIVE MatchesFrom(_, _, _, _)
MatchesFrom(p, i, s, j) ==
    IF i > Len(p) THEN j > Len(s)
    ELSE IF p[i] = "*" THEN
        \E k \in j..(Len(s) + 1) : MatchesFrom(p, i + StarRun(p, i), s, k)
    ELSE IF j > Len(s) THEN FALSE
    ELSE IF p[i] = "?" THEN MatchesFrom(p, i + 1, s, j + 1)
    ELSE IF p[i] = "[" THEN
        LET neg == p[i + 1] = "!"
            from == IF neg THEN i + 2 ELSE i + 1
            close == IndexFrom(p, "]", from + 1)
            within == \E k \in from..(close - 1) : p[k] = s[j]
        IN  (within # neg) /\ MatchesFrom(p, close + 1, s, j + 1)
    ELSE p[i] = s[j] /\ MatchesFrom(p, i + 1, s, j + 1)

PatternMatches(p, s) == MatchesFrom(p, 1, s, 1)

(***************************************************************************)
(* The file system under the scan root and the clock.                      *)
(***************************************************************************)
\* SystemTime::now() in epoch seconds (2027-01-15), read at app.rs:147.
NowSecs == 1800 * 1000000
Now == U64(NowSecs)

\* What metadata.modified() gives: a time at `secs` after the epoch, a time
\* before the epoch, or an error.
ModifiedAt(secs) == [kind |-> "at", secs |-> secs]
ModifiedBeforeEpoch == [kind |-> "before_epoch", secs |-> U64(0)]
ModifiedErr == [kind |-> "err", secs |-> U64(0)]

\* Modified n days and one hour ago.
DaysAgo(n) == ModifiedAt(U64(NowSecs - n * SecondsPerDay - 3600))
\* Modified ten seconds after the clock reading (clock skew).
NearFuture == ModifiedAt(U64(NowSecs + 10))
\* Modified about 3.17 million years from now: 2^64 + now - mtime is
\* (49710 * 2^32 + 7) days and 100 seconds.
FarFuture == ModifiedAt(<<38684, 27456, 23296, 0>>)

Name_root == <<".">>
Name_node_modules == <<"n", "o", "d", "e", "_", "m", "o", "d", "u", "l", "e", "s">>
Name_target == <<"t", "a", "r", "g", "e", "t">>
Name_sub == <<"s", "u", "b">>
Name_hidden == <<".", "h", "i", "d", "d", "e", "n">>
Name_git == <<".", "g", "i", "t">>
Name_a == <<"a">>
Name_file == <<"f">>
Name_gone == <<"g", "o", "n", "e">>

DirNode(name, children, modified) ==
    [name |-> name, kind |-> "dir", children |-> children, read_ok |-> TRUE,
     meta_ok |-> TRUE, modified |-> modified, len |-> 0]
FileNode(len) ==
    [name |-> Name_file, kind |-> "file", children |-> <<>>, read_ok |-> FALSE,
     meta_ok |-> TRUE, modified |-> DaysAgo(1), len |-> len]
\* A directory entry that read_dir yields as an Err.
ErrNode ==
    [name |-> Name_gone, kind |-> "err", children |-> <<>>, read_ok |-> FALSE,
     meta_ok |-> FALSE, modified |-> ModifiedErr, len |-> 0]

Root == "."

\* The tree of the scenario: ./node_modules (five files, 1200 bytes, 40 days
\* old), ./sub/.hidden with a nested node_modules, ./sub/target (300 bytes,
\* 5 days old).
ScenarioTree ==
    (Root :> DirNode(Name_root, <<"./node_modules", "./sub">>, DaysAgo(1)))
    @@ ("./node_modules" :> DirNode(Name_node_modules,
            <<"./node_modules/f1", "./node_modules/f2", "./node_modules/f3",
              "./node_modules/f4", "./node_modules/f5">>, DaysAgo(40)))
    @@ ("./node_modules/f1" :> FileNode(400))
    @@ ("./node_modules/f2" :> FileNode(300))
    @@ ("./node_modules/f3" :> FileNode(250))
    @@ ("./node_modules/f4" :> FileNode(150))
    @@ ("./node_modules/f5" :> FileNode(100))
    @@ ("./sub" :> DirNode(Name_sub, <<"./sub/.hidden", "./sub/target">>, DaysAgo(1)))
    @@ ("./sub/.hidden" :> DirNode(Name_hidden, <<"./sub/.hidden/node_modules">>, DaysAgo(50)))
    @@ ("./sub/.hidden/node_modules" :> DirNode(Name_node_modules,
            <<"./sub/.hidden/node_modules/f">>, DaysAgo(50)))
    @@ ("./sub/.hidden/node_modules/f" :> FileNode(77))
    @@ ("./sub/target" :> DirNode(Name_target, <<"./sub/target/f">>, DaysAgo(5)))
    @@ ("./sub/target/f" :> FileNode(300))

\* A tree with three matched directories whose modification times are mA,
\* mB, mC (the second holds a nested match), a matched directory whose
\* metadata cannot be read, an ignored directory holding a match, a plain
\* file and an entry that errors.
WideTree(mA, mB, mC) ==
    (Root :> DirNode(Name_root,
            <<"./a", "./node_modules", "./gone", "./.git", "./target">>, DaysAgo(1)))
    @@ ("./a" :> DirNode(Name_a, <<"./a/target", "./a/node_modules", "./a/f">>, DaysAgo(1)))
    @@ ("./a/target" :> DirNode(Name_target, <<"./a/target/f">>, mA))
    @@ ("./a/target/f" :> FileNode(50))
    @@ ("./a/node_modules" :>
            [DirNode(Name_node_modules, <<>>, DaysAgo(45)) EXCEPT !.meta_ok = FALSE])
    @@ ("./a/f" :> FileNode(9))
    @@ ("./node_modules" :> DirNode(Name_node_modules,
            <<"./node_modules/f", "./node_modules/target">>, mB))
    @@ ("./node_modules/f" :> FileNode(700))
    @@ ("./node_modules/target" :> DirNode(Name_target, <<"./node_modules/target/f">>, DaysAgo(90)))
    @@ ("./node_modules/target/f" :> FileNode(100))
    @@ ("./gone" :> ErrNode)
    @@ ("./.git" :> DirNode(Name_git, <<"./.git/target">>, DaysAgo(60)))
    @@ ("./.git/target" :> DirNode(Name_target, <<>>, DaysAgo(60)))
    @@ ("./target" :> DirNode(Name_target, <<"./target/f">>, mC))
    @@ ("./target/f" :> FileNode(300))

\* The trees a run may scan, by name: the scenario's, or the wide tree with
\* the modification times of its three matches.
Scenario == [shape |-> "scenario"]
Wide(mA, mB, mC) == [shape |-> "wide", mA |-> mA, mB |-> mB, mC |-> mC]

\* The directory tree under the scan root: path -> node.
Fs == IF tree.shape = "scenario" THEN ScenarioTree ELSE WideTree(tree.mA, tree.mB, tree.mC)

(***************************************************************************)
(* scanner::calculate_directory_size                                       *)
(***************************************************************************)
RECURSIVE calculate_directory_size(_), SumEntries(_)
\* The loop over fs::read_dir(path): an entry that errors, or whose metadata
\* cannot be read, adds nothing.
SumEntries(entries) ==
    IF entries = <<>> THEN 0
    ELSE LET e == Fs[Head(entries)]
             size == IF e.kind = "err" \/ ~e.meta_ok THEN 0
                     ELSE IF e.kind = "dir" THEN calculate_directory_size(Head(entries))
                     ELSE e.len
         IN  size + SumEntries(Tail(entries))

calculate_directory_size(path) ==
    IF Fs[path].read_ok THEN SumEntries(Fs[path].children) ELSE 0

(***************************************************************************)
(* walkdir::IntoIter: `start` is the root not yet yielded, `stack_list`    *)
(* the open directories, innermost last, each with its entries still to    *)
(* yield.                                                                  *)
(***************************************************************************)
IoError == "<io error>"

\* WalkDir::new(root).into_iter()
WalkDirNew(root) == [start |-> Some(root), stack_list |-> <<>>]

\* The directories trash::delete has moved away.
Trashed == {trash_calls[c].path : c \in {e \in 1..Len(trash_calls) : trash_calls[e].ok}}

\* fs::read_dir in IntoIter::push: a directory that cannot be opened is a
\* list that yields its error once; a directory moved to the trash is no
\* longer among the entries.
ReadDir(path) ==
    LET Present(child) == child \notin Trashed IN
    IF Fs[path].read_ok THEN SelectSeq(Fs[path].children, Present) ELSE <<IoError>>

\* IntoIter::handle_entry: a directory is pushed, then yielded.
HandleEntry(it, path) ==
    [item |-> Some(path),
     it |-> IF Fs[path].kind = "dir"
            THEN [it EXCEPT !.stack_list = Append(@, ReadDir(path))]
            ELSE it]

Pop(it) == [it EXCEPT !.stack_list = SubSeq(@, 1, Len(@) - 1)]

\* IntoIter::next: [item, it], item being None (exhausted), Some(IoError) or
\* Some(path).
RECURSIVE ItNext(_)
ItNext(it) ==
    IF it.start.some THEN HandleEntry([it EXCEPT !.start = None], it.start.val)
    ELSE IF it.stack_list = <<>> THEN [item |-> None, it |-> it]
    ELSE LET depth == Len(it.stack_list)
             top == it.stack_list[depth]
         IN  IF top = <<>> THEN ItNext(Pop(it))
             ELSE LET rest == [it EXCEPT !.stack_list[depth] = Tail(top)] IN
                  IF Head(top) = IoError \/ Fs[Head(top)].kind = "err"
                  THEN [item |-> Some(IoError), it |-> rest]
                  ELSE HandleEntry(rest, Head(top))

\* An iterator on which skip_current_dir does nothing.
KeepCurrentDir(it) == it

\* IntoIter::skip_current_dir
SkipCurrentDir(it) == IF it.stack_list # <<>> THEN Pop(it) ELSE it

(***************************************************************************)
(* App and the messages of the scan thread.                                *)
(***************************************************************************)
PathUpdate(path) == [type |-> "Path", path |-> path]
ResultUpdate(dir_info) == [type |-> "Result", dir_info |-> dir_info]
DoneUpdate == [type |-> "Done"]

\* ScanResults::default(). The two sizes are kept in bytes: the f64 the
\* code stores is this number divided by 2^30, exactly (below 2^53 bytes).
ScanResultsDefault ==
    [total_folders |-> 0, found_folders |-> 0, total_size_gb |-> 0, selected_size_gb |-> 0]

\* App::new(), with the ignore patterns the caller configures. spinner_index
\* and selected_folders are read by the renderer alone and are left out.
AppNew(ignore_patterns) ==
    [state |-> "Scanning",
     current_scan_path |-> None,
     scan_receiver |-> None,
     scan_stop_signal |-> FALSE,
     deletion_summary |-> None,
     folders_to_clean |-> <<Name_node_modules, Name_target>>,
     ignore_patterns |-> ignore_patterns,
     current_directory |-> Root,
     dirs_to_clean |-> <<>>,
     dir_list_state |-> None,
     confirm_action |-> None,
     scan_results |-> ScanResultsDefault,
     should_exit |-> FALSE]

\* The foreground's part of App::start_scan (app.rs:92-96); `rx` names the
\* thread whose channel the new receiver reads.
StartScan(a, rx) ==
    [a EXCEPT !.scan_receiver = Some(rx),
              !.state = "Scanning",
              !.dirs_to_clean = <<>>,
              !.scan_stop_signal = FALSE]

\* The thread App::start_scan spawns (app.rs:98-103), before it has run:
\* its clones of the configuration, its iterator, the channel it sends on
\* and, as history, everything it has sent.
SpawnThread(a) ==
    [pc |-> "compile",
     current_directory |-> a.current_directory,
     folders_to_clean |-> a.folders_to_clean,
     ignore_patterns |-> a.ignore_patterns,
     it |-> WalkDirNew(a.current_directory),
     entry |-> None,
     chan |-> <<>>,
     emitted |-> <<>>]

(***************************************************************************)
(* The scan thread (the closure of App::start_scan).                       *)
(***************************************************************************)
SeqContains(s, x) == \E i \in 1..Len(s) : s[i] = x

\* tx.send(update): queued while the receiver of this thread's channel is
\* alive, an ignored Err once it is dropped.
Send(t, w, updates) ==
    [t EXCEPT !.emitted = @ \o updates,
              !.chan = IF app.scan_receiver = Some(w) THEN @ \o updates ELSE @]

\* path.file_name().unwrap_or_default(): the root "." has no file name.
PathFileName(path) == IF path = Root THEN <<>> ELSE Fs[path].name
\* walkdir's DirEntry::file_name(): the root's is the path itself.
EntryFileName(path) == Fs[path].name

\* Every Pattern::new(p) of app.rs:104-107 is Ok.
PatternsCompile(patterns) == \A i \in 1..Len(patterns) : PatternNewIsOk(patterns[i])

\* app.rs:104-108: the patterns are compiled on the thread; expect() panics
\* on the first that does not compile.
ThreadCompile(w) ==
    /\ workers[w].pc = "compile"
    /\ workers' = [workers EXCEPT ![w].pc =
            IF PatternsCompile(workers[w].ignore_patterns) THEN "loop" ELSE "panicked"]
    /\ UNCHANGED <<tree, overflow_checks, app, observed, trash_calls>>

\* app.rs:110-118 and 167: the head of the loop. The stop signal is read,
\* then the next entry is taken; leaving the loop sends Done and ends the
\* thread.
ThreadNext(w) ==
    /\ workers[w].pc = "loop"
    /\ LET t == workers[w]
           nx == ItNext(t.it)
       IN  workers' = [workers EXCEPT ![w] =
               IF app.scan_stop_signal THEN [Send(t, w, <<DoneUpdate>>) EXCEPT !.pc = "exited"]
               ELSE IF ~nx.item.some
                    THEN [Send(t, w, <<DoneUpdate>>) EXCEPT !.pc = "exited", !.it = nx.it]
               ELSE IF nx.item.val = IoError THEN [t EXCEPT !.it = nx.it]
               ELSE [t EXCEPT !.it = nx.it, !.entry = nx.item, !.pc = "entry"]]
    /\ UNCHANGED <<tree, overflow_checks, app, observed, trash_calls>>

AutoSelectDays == 30

\* app.rs:138-161: the DirInfo of a matched directory whose metadata was
\* read. [panic, dir_info]: duration_since(UNIX_EPOCH).unwrap() panics on a
\* time before the epoch, and now - modified_time panics when it overflows
\* and the build checks overflow.
MakeDirInfo(path) ==
    LET modified == Fs[path].modified
        modified_time == IF modified.kind = "err" THEN U64(0) ELSE modified.secs
        days_ago == DivSecondsPerDay(WrappingSub(Now, modified_time))
    IN  [panic |-> \/ modified.kind = "before_epoch"
                   \/ (overflow_checks /\ U64Less(Now, modified_time)),
         dir_info |-> [path |-> path,
                       modified_days_ago |-> AsU32(days_ago),
                       selected |-> U64Greater(days_ago, AutoSelectDays),
                       size_bytes |-> calculate_directory_size(path)]]

\* A loop body that does not skip the directory it has matched.
VisitEntryDescending(t, w) ==
    LET path == t.entry.val
        is_dir == Fs[path].kind = "dir"
        t1 == IF is_dir THEN Send(t, w, <<PathUpdate(path)>>) ELSE t
        should_ignore ==
            is_dir /\ \E i \in 1..Len(t.ignore_patterns) :
                          PatternMatches(t.ignore_patterns[i], PathFileName(path))
        made == MakeDirInfo(path)
    IN  IF should_ignore
        THEN [t1 EXCEPT !.it = SkipCurrentDir(@), !.pc = "loop", !.entry = None]
        ELSE IF is_dir /\ SeqContains(t.folders_to_clean, EntryFileName(path))
                /\ Fs[path].meta_ok /\ ~made.panic
        THEN [Send(t1, w, <<ResultUpdate(made.dir_info)>>) EXCEPT !.pc = "loop", !.entry = None]
        ELSE [t1 EXCEPT !.pc = "loop", !.entry = None]

\* app.rs:120-165: the body of the loop for the entry just taken.
VisitEntry(t, w) ==
    LET path == t.entry.val
        is_dir == Fs[path].kind = "dir"
        t1 == IF is_dir THEN Send(t, w, <<PathUpdate(path)>>) ELSE t
        should_ignore ==
            is_dir /\ \E i \in 1..Len(t.ignore_patterns) :
                          PatternMatches(t.ignore_patterns[i], PathFileName(path))
        made == MakeDirInfo(path)
    IN  IF should_ignore
        THEN [t1 EXCEPT !.it = SkipCurrentDir(@), !.pc = "loop", !.entry = None]
        ELSE IF is_dir /\ SeqContains(t.folders_to_clean, EntryFileName(path))
        THEN IF ~Fs[path].meta_ok
             THEN [t1 EXCEPT !.it = SkipCurrentDir(@), !.pc = "loop", !.entry = None]
             ELSE IF made.panic
             THEN [t1 EXCEPT !.pc = "panicked", !.entry = None]
             ELSE [Send(t1, w, <<ResultUpdate(made.dir_info)>>) EXCEPT
                       !.it = SkipCurrentDir(@), !.pc = "loop", !.entry = None]
        ELSE [t1 EXCEPT !.pc = "loop", !.entry = None]

ThreadVisit(w) ==
    /\ workers[w].pc = "entry"
    /\ workers' = [workers EXCEPT ![w] = VisitEntry(workers[w], w)]
    /\ UNCHANGED <<tree, overflow_checks, app, observed, trash_calls>>

(***************************************************************************)
(* The foreground: the result list.                                        *)
(***************************************************************************)
\* A sort that is not stable: x goes before the elements of equal key.
InsertBeforeEqualKey(s, x) ==
    LET k == Cardinality({i \in 1..Len(s) : s[i].modified_days_ago < x.modified_days_ago})
    IN  SubSeq(s, 1, k) \o <<x>> \o SubSeq(s, k + 1, Len(s))

\* Where a stable sort by key puts x in the sorted sequence s: after every
\* element whose key is not greater.
InsertByKey(s, x) ==
    LET k == Cardinality({i \in 1..Len(s) : s[i].modified_days_ago <= x.modified_days_ago})
    IN  SubSeq(s, 1, k) \o <<x>> \o SubSeq(s, k + 1, Len(s))

\* The list left in the order of arrival.
Unsorted(s) == s

\* dirs_to_clean.sort_by_key(|d| d.modified_days_ago): a stable sort.
RECURSIVE SortByKey(_)
SortByKey(s) ==
    IF s = <<>> THEN <<>>
    ELSE InsertByKey(SortByKey(SubSeq(s, 1, Len(s) - 1)), s[Len(s)])

\* A count of every directory, selected or not.
CountEvery(dirs) == Len(dirs)

\* dirs.iter().filter(|d| d.selected).count()
RECURSIVE SelectedCount(_)
SelectedCount(dirs) ==
    IF dirs = <<>> THEN 0
    ELSE (IF Head(dirs).selected THEN 1 ELSE 0) + SelectedCount(Tail(dirs))

\* The sum of size_bytes over the selected directories.
RECURSIVE SelectedSize(_)
SelectedSize(dirs) ==
    IF dirs = <<>> THEN 0
    ELSE (IF Head(dirs).selected THEN Head(dirs).size_bytes ELSE 0) + SelectedSize(Tail(dirs))

\* dirs.iter().map(|d| d.size_bytes as f64).sum()
RECURSIVE TotalSize(_)
TotalSize(dirs) ==
    IF dirs = <<>> THEN 0 ELSE Head(dirs).size_bytes + TotalSize(Tail(dirs))

\* A fold in which Done leaves the in-progress path as it is.
HandleDoneKeepingPath(a, update) ==
    IF update.type = "Path" THEN [a EXCEPT !.current_scan_path = Some(update.path)]
    ELSE IF update.type = "Result" THEN
        LET dirs == SortByKey(Append(a.dirs_to_clean, update.dir_info)) IN
        [a EXCEPT !.dirs_to_clean = dirs,
                  !.scan_results.total_folders = Len(dirs),
                  !.scan_results.found_folders = SelectedCount(dirs),
                  !.scan_results.total_size_gb = TotalSize(dirs),
                  !.dir_list_state = IF dirs # <<>> /\ ~@.some THEN Some(0) ELSE @]
    ELSE [a EXCEPT !.state = "ScanComplete", !.scan_receiver = None]

\* main.rs:349-377: one received ScanUpdate folded into the App.
HandleScanUpdate(a, update) ==
    IF update.type = "Path" THEN [a EXCEPT !.current_scan_path = Some(update.path)]
    ELSE IF update.type = "Result" THEN
        LET dirs == SortByKey(Append(a.dirs_to_clean, update.dir_info)) IN
        [a EXCEPT !.dirs_to_clean = dirs,
                  !.scan_results.total_folders = Len(dirs),
                  !.scan_results.found_folders = SelectedCount(dirs),
                  !.scan_results.total_size_gb = TotalSize(dirs),
                  !.dir_list_state = IF dirs # <<>> /\ ~@.some THEN Some(0) ELSE @]
    ELSE [a EXCEPT !.state = "ScanComplete",
                   !.scan_receiver = None,
                   !.current_scan_path = None]

\* A recomputation that also writes the selected size over the total size.
RecomputeEveryAggregate(a) ==
    [a EXCEPT !.scan_results.found_folders = SelectedCount(a.dirs_to_clean),
              !.scan_results.selected_size_gb = SelectedSize(a.dirs_to_clean),
              !.scan_results.total_size_gb = SelectedSize(a.dirs_to_clean)]

\* App::update_selection_scan_results
update_selection_scan_results(a) ==
    [a EXCEPT !.scan_results.found_folders = SelectedCount(a.dirs_to_clean),
              !.scan_results.selected_size_gb = SelectedSize(a.dirs_to_clean)]

(***************************************************************************)
(* The foreground: keys.                                                   *)
(***************************************************************************)
KeyCodes == {"y", "Y", "n", "N", "Esc", "Enter", "q", "Down", "Up", "Space", "a", "d", "c", "x"}
NoKey == "<none>"

\* The confirmation labels, as their words.
StopLabel == <<"Stop", "the", "current", "scan">>
\* format!("Move {} selected items to trash", selected_count)
MoveLabel(selected_count) ==
    <<"Move", ToString(selected_count), "selected", "items", "to", "trash">>
\* action.starts_with("Move")
StartsWithMove(action) == Len(action) > 0 /\ action[1] = "Move"

\* A trash::delete call for every directory of the list, selected or not.
TrashEveryDir(dirs, ok) ==
    [i \in 1..Len(dirs) |-> [path |-> dirs[i].path, ok |-> dirs[i].path \in ok]]

\* The trash::delete calls of App::move_dirs_to_trash, in order: one for
\* each selected directory. `ok` is the set of paths for which it succeeds.
RECURSIVE TrashCalls(_, _)
TrashCalls(dirs, ok) ==
    IF dirs = <<>> THEN <<>>
    ELSE (IF Head(dirs).selected
          THEN <<[path |-> Head(dirs).path, ok |-> Head(dirs).path \in ok]>>
          ELSE <<>>) \o TrashCalls(Tail(dirs), ok)

\* A summary that counts every selected directory, trashed or not.
RECURSIVE CountAllSelected(_, _)
CountAllSelected(dirs, ok) ==
    IF dirs = <<>> THEN <<0, 0>>
    ELSE LET rest == CountAllSelected(Tail(dirs), ok) IN
         IF Head(dirs).selected
         THEN <<rest[1] + 1, rest[2] + Head(dirs).size_bytes>>
         ELSE rest

\* App::move_dirs_to_trash: (deleted_count, deleted_size).
RECURSIVE move_dirs_to_trash(_, _)
move_dirs_to_trash(dirs, ok) ==
    IF dirs = <<>> THEN <<0, 0>>
    ELSE LET rest == move_dirs_to_trash(Tail(dirs), ok) IN
         IF Head(dirs).selected /\ Head(dirs).path \in ok
         THEN <<rest[1] + 1, rest[2] + Head(dirs).size_bytes>>
         ELSE rest

\* A confirm branch in which declining the stop confirmation stops the scan
\* all the same.
DeclineStops(a, key, ok) ==
    LET action == a.confirm_action.val IN
    IF key \in {"y", "Y"} THEN
        [(IF StartsWithMove(action)
          THEN [a EXCEPT !.deletion_summary = Some(move_dirs_to_trash(a.dirs_to_clean, ok)),
                         !.state = "DeletionComplete"]
          ELSE IF action = StopLabel
          THEN [a EXCEPT !.scan_stop_signal = TRUE, !.state = "Stopping"]
          ELSE a) EXCEPT !.confirm_action = None]
    ELSE IF key \in {"n", "N", "Esc"} THEN
        [a EXCEPT !.confirm_action = None,
                  !.scan_stop_signal = IF action = StopLabel THEN TRUE ELSE @]
    ELSE a

\* app.rs:205-224: a key while a confirmation is pending.
HandleConfirmKey(a, key, ok) ==
    LET action == a.confirm_action.val IN
    IF key \in {"y", "Y"} THEN
        [(IF StartsWithMove(action)
          THEN [a EXCEPT !.deletion_summary = Some(move_dirs_to_trash(a.dirs_to_clean, ok)),
                         !.state = "DeletionComplete"]
          ELSE IF action = StopLabel
          THEN [a EXCEPT !.scan_stop_signal = TRUE, !.state = "Stopping"]
          ELSE a) EXCEPT !.confirm_action = None]
    ELSE IF key \in {"n", "N", "Esc"} THEN [a EXCEPT !.confirm_action = None]
    ELSE a

\* A clean request that counts every directory and asks even when none is
\* selected.
RequestCleanOfEvery(a) ==
    IF a.dirs_to_clean # <<>>
    THEN [a EXCEPT !.confirm_action = Some(MoveLabel(Len(a.dirs_to_clean)))]
    ELSE a

\* app.rs:261-271 and 298-308: Enter and 'c' ask to confirm the deletion.
RequestClean(a) ==
    IF a.dirs_to_clean # <<>> /\ SelectedCount(a.dirs_to_clean) > 0
    THEN [a EXCEPT !.confirm_action = Some(MoveLabel(SelectedCount(a.dirs_to_clean)))]
    ELSE a

\* A key handler whose Down and Up move the cursor without looking at the
\* ends of the list.
HandleListKeyUnclamped(a, key) ==
    LET len == Len(a.dirs_to_clean)
        current_selection == IF a.dir_list_state.some THEN a.dir_list_state.val ELSE 0
    IN
    IF key \in {"q", "Esc"} THEN [a EXCEPT !.should_exit = TRUE]
    ELSE IF key = "Down" THEN
        IF len # 0 /\ current_selection < len
        THEN [a EXCEPT !.dir_list_state = Some(current_selection + 1)] ELSE a
    ELSE IF key = "Up" THEN
        IF len # 0 THEN [a EXCEPT !.dir_list_state = None] ELSE a
    ELSE IF key \in {"Enter", "c"} THEN RequestClean(a)
    ELSE IF key = "Space" THEN
        update_selection_scan_results(
            IF len # 0 /\ a.dir_list_state.some /\ a.dir_list_state.val < len
            THEN [a EXCEPT !.dirs_to_clean[a.dir_list_state.val + 1].selected = ~@]
            ELSE a)
    ELSE IF key = "a" THEN
        update_selection_scan_results(
            [a EXCEPT !.dirs_to_clean = [i \in 1..len |-> [@[i] EXCEPT !.selected = TRUE]]])
    ELSE IF key = "d" THEN
        update_selection_scan_results(
            [a EXCEPT !.dirs_to_clean = [i \in 1..len |-> [@[i] EXCEPT !.selected = FALSE]]])
    ELSE a

\* app.rs:237-310: a key in ScanComplete with no confirmation pending.
HandleListKey(a, key) ==
    LET len == Len(a.dirs_to_clean)
        current_selection == IF a.dir_list_state.some THEN a.dir_list_state.val ELSE 0
    IN
    IF key \in {"q", "Esc"} THEN [a EXCEPT !.should_exit = TRUE]
    ELSE IF key = "Down" THEN
        IF len # 0 /\ current_selection + 1 < len
        THEN [a EXCEPT !.dir_list_state = Some(current_selection + 1)] ELSE a
    ELSE IF key = "Up" THEN
        IF len # 0 /\ current_selection > 0
        THEN [a EXCEPT !.dir_list_state = Some(current_selection - 1)] ELSE a
    ELSE IF key \in {"Enter", "c"} THEN RequestClean(a)
    ELSE IF key = "Space" THEN
        update_selection_scan_results(
            IF len # 0 /\ a.dir_list_state.some /\ a.dir_list_state.val < len
            THEN [a EXCEPT !.dirs_to_clean[a.dir_list_state.val + 1].selected = ~@]
            ELSE a)
    ELSE IF key = "a" THEN
        update_selection_scan_results(
            [a EXCEPT !.dirs_to_clean = [i \in 1..len |-> [@[i] EXCEPT !.selected = TRUE]]])
    ELSE IF key = "d" THEN
        update_selection_scan_results(
            [a EXCEPT !.dirs_to_clean = [i \in 1..len |-> [@[i] EXCEPT !.selected = FALSE]]])
    ELSE a

\* A handler in which 'q' is accepted while stopping.
QuitWhileStopping(a, key, ok) ==
    IF a.state = "DeletionComplete" THEN
        IF key \in {"y", "Y", "Enter"} THEN [a EXCEPT !.should_exit = TRUE] ELSE a
    ELSE IF a.confirm_action.some THEN HandleConfirmKey(a, key, ok)
    ELSE IF a.state = "Scanning" THEN
        IF key = "q" THEN [a EXCEPT !.should_exit = TRUE]
        ELSE IF key = "Esc" THEN [a EXCEPT !.confirm_action = Some(StopLabel)]
        ELSE a
    ELSE IF a.state = "Stopping" THEN
        IF key = "q" THEN [a EXCEPT !.should_exit = TRUE] ELSE a
    ELSE HandleListKey(a, key)

\* A handler in which the list keys still work after the deletion.
ListKeysAfterDeletion(a, key, ok) ==
    IF a.state = "DeletionComplete" /\ key \in {"y", "Y", "Enter"}
    THEN [a EXCEPT !.should_exit = TRUE]
    ELSE IF a.confirm_action.some THEN HandleConfirmKey(a, key, ok)
    ELSE IF a.state = "Scanning" THEN
        IF key = "q" THEN [a EXCEPT !.should_exit = TRUE]
        ELSE IF key = "Esc" THEN [a EXCEPT !.confirm_action = Some(StopLabel)]
        ELSE a
    ELSE IF a.state = "Stopping" THEN a
    ELSE HandleListKey(a, key)

\* A handler in which the list keys work while the scan is running.
ListKeysWhileScanning(a, key, ok) ==
    IF a.state = "DeletionComplete" THEN
        IF key \in {"y", "Y", "Enter"} THEN [a EXCEPT !.should_exit = TRUE] ELSE a
    ELSE IF a.confirm_action.some THEN HandleConfirmKey(a, key, ok)
    ELSE IF a.state = "Scanning" /\ key = "Esc" THEN [a EXCEPT !.confirm_action = Some(StopLabel)]
    ELSE IF a.state = "Stopping" THEN a
    ELSE HandleListKey(a, key)

\* A handler in which Esc cancels the scan at once, with no confirmation.
StopWithoutConfirming(a, key, ok) ==
    IF a.state = "DeletionComplete" THEN
        IF key \in {"y", "Y", "Enter"} THEN [a EXCEPT !.should_exit = TRUE] ELSE a
    ELSE IF a.confirm_action.some THEN HandleConfirmKey(a, key, ok)
    ELSE IF a.state = "Scanning" THEN
        IF key = "q" THEN [a EXCEPT !.should_exit = TRUE]
        ELSE IF key = "Esc" THEN [a EXCEPT !.scan_stop_signal = TRUE, !.state = "Stopping"]
        ELSE a
    ELSE IF a.state = "Stopping" THEN a
    ELSE HandleListKey(a, key)

\* App::handle_key_event
handle_key_event(a, key, ok) ==
    IF a.state = "DeletionComplete" THEN
        IF key \in {"y", "Y", "Enter"} THEN [a EXCEPT !.should_exit = TRUE] ELSE a
    ELSE IF a.confirm_action.some THEN HandleConfirmKey(a, key, ok)
    ELSE IF a.state = "Scanning" THEN
        IF key = "q" THEN [a EXCEPT !.should_exit = TRUE]
        ELSE IF key = "Esc" THEN [a EXCEPT !.confirm_action = Some(StopLabel)]
        ELSE a
    ELSE IF a.state = "Stopping" THEN a
    ELSE HandleListKey(a, key)

\* The trash::delete calls handle_key_event makes for this key.
KeyTrashCalls(a, key, ok) ==
    IF /\ a.state # "DeletionComplete"
       /\ a.confirm_action.some
       /\ key \in {"y", "Y"}
       /\ StartsWithMove(a.confirm_action.val)
    THEN TrashCalls(a.dirs_to_clean, ok)
    ELSE <<>>

(***************************************************************************)
(* The foreground loop (main).                                             *)
(***************************************************************************)
\* The loop ends once a key has set should_exit.
LoopRunning == ~app.should_exit

\* A receive that takes the update sent last.
ReceivedLast ==
    IF app.scan_receiver.some /\ workers[app.scan_receiver.val].chan # <<>>
    THEN <<workers[app.scan_receiver.val].chan[Len(workers[app.scan_receiver.val].chan)]>>
    ELSE <<>>

\* main.rs:347-379: at most one update is taken from the channel.
Received ==
    IF app.scan_receiver.some /\ workers[app.scan_receiver.val].chan # <<>>
    THEN <<Head(workers[app.scan_receiver.val].chan)>>
    ELSE <<>>

AfterReceive == IF Received # <<>> THEN HandleScanUpdate(app, Received[1]) ELSE app

\* The outcomes trash::delete may have for the directories this key deletes.
TrashOutcomes(a, key) ==
    IF KeyTrashCalls(a, key, {}) # <<>>
    THEN SUBSET {a.dirs_to_clean[i].path : i \in {j \in 1..Len(a.dirs_to_clean) : a.dirs_to_clean[j].selected}}
    ELSE {{}}

\* main.rs:343-395: one iteration of the loop: the channel is polled, then
\* the keyboard (`key` is NoKey when the poll times out).
Tick(key) ==
    /\ LoopRunning
    /\ \E ok \in TrashOutcomes(AfterReceive, key) :
        /\ app' = IF key = NoKey THEN AfterReceive
                  ELSE handle_key_event(AfterReceive, key, ok)
        /\ trash_calls' = trash_calls \o KeyTrashCalls(AfterReceive, key, ok)
    /\ observed' = observed \o Received
    /\ workers' = IF Received # <<>>
                  THEN [workers EXCEPT ![app.scan_receiver.val].chan = Tail(@)]
                  ELSE workers
    /\ UNCHANGED <<tree, overflow_checks>>

(***************************************************************************)
(* The specification.                                                      *)
(***************************************************************************)
\* The ignore patterns a run may be configured with: the default, one with
\* a pattern that does not compile, and one that also ignores node_modules.
IgnorePatternSets ==
    {<<<<".", "*">>>>,
     <<<<".", "*">>, <<"[", "a">>>>,
     <<<<".", "*">>, <<"n", "o", "d", "*">>>>}

\* The modification times the three matched directories of WideTree may have.
MtimesA == {DaysAgo(5), DaysAgo(40), ModifiedBeforeEpoch, FarFuture}
MtimesB == {DaysAgo(5), DaysAgo(31), ModifiedErr}
MtimesC == {DaysAgo(5), DaysAgo(30), NearFuture}

Trees ==
    {Scenario}
    \cup {Wide(mA, mB, mC) : mA \in MtimesA, mB \in MtimesB, mC \in MtimesC}

\* main.rs:329-341: App::new(), then the first start_scan().
Init ==
    /\ tree \in Trees
    /\ overflow_checks \in BOOLEAN
    /\ \E ignore_patterns \in IgnorePatternSets :
        /\ app = StartScan(AppNew(ignore_patterns), 1)
        /\ workers = <<SpawnThread(AppNew(ignore_patterns))>>
    /\ observed = <<>>
    /\ trash_calls = <<>>

ThreadStep == \E w \in 1..Len(workers) : ThreadCompile(w) \/ ThreadNext(w) \/ ThreadVisit(w)

Next ==
    \/ LoopRunning /\ ThreadStep
    \/ \E key \in KeyCodes \cup {NoKey} : Tick(key)

Spec == Init /\ [][Next]_vars

\* The runs on the scenario's tree with patterns that compile: there the
\* scan thread cannot panic.
InitScenario == Init /\ tree = Scenario /\ PatternsCompile(app.ignore_patterns)

\* Those runs, with the scan thread scheduled while it can run and the loop
\* iterating until it is left.
FairScenarioSpec ==
    /\ InitScenario
    /\ [][Next]_vars
    /\ WF_vars(LoopRunning /\ ThreadStep)
    /\ WF_vars(\E key \in KeyCodes \cup {NoKey} : Tick(key))

(***************************************************************************)
(* The program of main.rs. Its App has the states Scanning and             *)
(* ScanComplete only, no deletion summary and no selected size; 'q' ends   *)
(* the process, and a confirmed deletion is followed by a new scan. Its    *)
(* scan thread (main.rs:109-174) is that of app.rs line for line, and the  *)
(* loop is the one above.                                                  *)
(***************************************************************************)
\* The number of scans a run may start.
MaxScans == 2

\* std::process::exit(0) at main.rs:218 and 225 ends the loop and the scan
\* threads with it; should_exit records it.
ProcessRunning == ~app.should_exit

\* main.rs:97-102: the foreground's part of start_scan.
main_start_scan(a, rx) ==
    [a EXCEPT !.scan_receiver = Some(rx),
              !.state = "Scanning",
              !.dirs_to_clean = <<>>,
              !.scan_stop_signal = FALSE]

\* main.rs:190-192
main_update_selection_scan_results(a) ==
    [a EXCEPT !.scan_results.found_folders = SelectedCount(a.dirs_to_clean)]

\* main.rs:195-212: a key while a confirmation is pending; `rx` names the
\* thread a new scan would start.
MainHandleConfirmKey(a, key, rx) ==
    LET action == a.confirm_action.val IN
    IF key \in {"y", "Y"} THEN
        [(IF StartsWithMove(action) THEN main_start_scan(a, rx)
          ELSE IF action = StopLabel THEN [a EXCEPT !.scan_stop_signal = TRUE]
          ELSE a) EXCEPT !.confirm_action = None]
    ELSE IF key \in {"n", "N", "Esc"} THEN [a EXCEPT !.confirm_action = None]
    ELSE a

\* main.rs:224-294: a key in ScanComplete with no confirmation pending.
MainHandleListKey(a, key) ==
    LET len == Len(a.dirs_to_clean)
        current_selection == IF a.dir_list_state.some THEN a.dir_list_state.val ELSE 0
    IN
    IF key \in {"q", "Esc"} THEN [a EXCEPT !.should_exit = TRUE]
    ELSE IF key = "Down" THEN
        IF len # 0 /\ current_selection + 1 < len
        THEN [a EXCEPT !.dir_list_state = Some(current_selection + 1)] ELSE a
    ELSE IF key = "Up" THEN
        IF len # 0 /\ current_selection > 0
        THEN [a EXCEPT !.dir_list_state = Some(current_selection - 1)] ELSE a
    ELSE IF key \in {"Enter", "c"} THEN RequestClean(a)
    ELSE IF key = "Space" THEN
        main_update_selection_scan_results(
            IF len # 0 /\ a.dir_list_state.some /\ a.dir_list_state.val < len
            THEN [a EXCEPT !.dirs_to_clean[a.dir_list_state.val + 1].selected = ~@]
            ELSE a)
    ELSE IF key = "a" THEN
        main_update_selection_scan_results(
            [a EXCEPT !.dirs_to_clean = [i \in 1..len |-> [@[i] EXCEPT !.selected = TRUE]]])
    ELSE IF key = "d" THEN
        main_update_selection_scan_results(
            [a EXCEPT !.dirs_to_clean = [i \in 1..len |-> [@[i] EXCEPT !.selected = FALSE]]])
    ELSE a

\* A handler in which the list keys, the clean request among them, work
\* while the scan is running.
MainListKeysWhileScanning(a, key, rx) ==
    IF a.confirm_action.some THEN MainHandleConfirmKey(a, key, rx)
    ELSE IF a.state = "Scanning" /\ key = "Esc" THEN [a EXCEPT !.confirm_action = Some(StopLabel)]
    ELSE MainHandleListKey(a, key)

\* main.rs:194-297: handle_key_event of main.rs.
main_handle_key_event(a, key, rx) ==
    IF a.confirm_action.some THEN MainHandleConfirmKey(a, key, rx)
    ELSE IF a.state = "Scanning" THEN
        IF key = "q" THEN [a EXCEPT !.should_exit = TRUE]
        ELSE IF key = "Esc" THEN [a EXCEPT !.confirm_action = Some(StopLabel)]
        ELSE a
    ELSE MainHandleListKey(a, key)

\* main.rs:198-200: this key makes the handler call start_scan.
MainKeyStartsScan(a, key) ==
    /\ a.confirm_action.some
    /\ key \in {"y", "Y"}
    /\ StartsWithMove(a.confirm_action.val)

\* main.rs:488-520: the number of items the list widget is given: one for
\* each directory, or the line "No matching directories found" when the
\* list is empty and the scan is complete.
FileItems(a) ==
    IF a.dirs_to_clean # <<>> THEN Len(a.dirs_to_clean)
    ELSE IF a.state = "ScanComplete" THEN 1 ELSE 0

\* main.rs:344, 532: each iteration draws the frame and hands dir_list_state
\* to the list widget by mutable reference. The widget belongs to the
\* terminal library, whose version the sources do not fix: it either leaves
\* the cursor as it is (it draws nothing into an empty area, and older
\* versions never write the state) or adjusts it to the items it is given
\* (no cursor for no items, the last item for a cursor beyond it).
ui(a, adjusts) ==
    IF ~adjusts THEN a
    ELSE [a EXCEPT !.dir_list_state =
             IF FileItems(a) = 0 THEN None
             ELSE IF @.some /\ @.val >= FileItems(a) THEN Some(FileItems(a) - 1)
             ELSE @]

\* main.rs:347-379 applied to the application as the frame left it.
PollChannel(a) == IF Received # <<>> THEN HandleScanUpdate(a, Received[1]) ELSE a

\* main.rs:343-395: one iteration of the loop of main.rs, with its own
\* handler: the frame is drawn, the channel is polled, then the keyboard; a
\* key that starts a scan spawns the scan's thread.
TickMain(key) ==
    /\ ProcessRunning
    /\ \E adjusts \in BOOLEAN :
        LET polled == PollChannel(ui(app, adjusts)) IN
        /\ MainKeyStartsScan(polled, key) => Len(workers) < MaxScans
        /\ \E ok \in TrashOutcomes(polled, key) :
            /\ app' = IF key = NoKey THEN polled
                      ELSE main_handle_key_event(polled, key, Len(workers) + 1)
            /\ trash_calls' = trash_calls \o KeyTrashCalls(polled, key, ok)
        /\ workers' =
               LET taken == IF Received # <<>>
                            THEN [workers EXCEPT ![app.scan_receiver.val].chan = Tail(@)]
                            ELSE workers
               IN  IF MainKeyStartsScan(polled, key)
                   THEN Append(taken, SpawnThread(polled))
                   ELSE taken
    /\ observed' = observed \o Received
    /\ UNCHANGED <<tree, overflow_checks>>

\* The runs of main.rs on the scenario's tree with the default pattern. No
\* modification time of the scenario is after the clock reading, so the
\* build's overflow checks make no difference there.
InitRescan ==
    /\ Init
    /\ tree = Scenario
    /\ ~overflow_checks
    /\ app.ignore_patterns = <<<<".", "*">>>>

NextRescan ==
    \/ ProcessRunning /\ ThreadStep
    \/ \E key \in KeyCodes \cup {NoKey} : TickMain(key)

SpecRescan == InitRescan /\ [][NextRescan]_vars

(***************************************************************************)
(* Properties.                                                             *)
(***************************************************************************)
Threads == 1..Len(workers)
Ended(t) == t.pc \in {"exited", "panicked"}
DoneCount(updates) == Cardinality({i \in 1..Len(updates) : updates[i].type = "Done"})
IsResult(update) == update.type = "Result"
\* The DirInfo values among the updates, in order.
DirInfos(updates) ==
    LET rs == SelectSeq(updates, IsResult) IN [i \in 1..Len(rs) |-> rs[i].dir_info]
\* A DirInfo without its selected flag.
Unflagged(d) == [path |-> d.path, modified_days_ago |-> d.modified_days_ago, size_bytes |-> d.size_bytes]
SelectedIndexes(dirs) == {i \in 1..Len(dirs) : dirs[i].selected}
RECURSIVE SizeOver(_, _)
\* The sum of size_bytes over the indexes in `indexes`.
SizeOver(dirs, indexes) ==
    IF indexes = {} THEN 0
    ELSE LET i == CHOOSE j \in indexes : TRUE
         IN  dirs[i].size_bytes + SizeOver(dirs, indexes \ {i})

\* C1: every scan thread whose patterns compiled and that has ended has
\* sent exactly one Done, as its last update (so no Result follows it).
C1_ExactlyOneDone ==
    \A w \in Threads :
        LET t == workers[w] IN
        (PatternsCompile(t.ignore_patterns) /\ Ended(t)) =>
            /\ DoneCount(t.emitted) = 1
            /\ t.emitted[Len(t.emitted)].type = "Done"

\* C2: whenever the workflow is in Stopping (a stop was requested and its
\* confirmation accepted) it eventually is in ScanComplete.
C2_StoppingReachesScanComplete ==
    [](app.state = "Stopping" => <>(app.state = "ScanComplete"))

\* C3: the stop signal becomes true only in an iteration whose key accepts a
\* pending "Stop the current scan" confirmation, and trash::delete is called
\* only in an iteration whose key accepts a pending "Move ..." confirmation.
C3_ConfirmationPrecedesDestruction ==
    [][/\ (~app.scan_stop_signal /\ app'.scan_stop_signal) =>
            /\ app.confirm_action = Some(StopLabel)
            /\ app'.confirm_action = None
            /\ \E key \in {"y", "Y"} : Tick(key)
       /\ (trash_calls' # trash_calls) =>
            /\ app.confirm_action.some
            /\ StartsWithMove(app.confirm_action.val)
            /\ app'.confirm_action = None
            /\ \E key \in {"y", "Y"} : Tick(key)]_vars

\* A run in which both destructive actions happened: the scan was cancelled
\* and, later, directories were trashed.
C3_Witness == app.scan_stop_signal /\ trash_calls # <<>>

\* C4: while a confirmation is pending, the workflow state changes only in
\* an iteration whose key accepts or declines it, and not by the update the
\* iteration takes from the channel.
C4_ConfirmationIsModal ==
    [][(app.confirm_action.some /\ app'.state # app.state) =>
            /\ AfterReceive.state = app.state
            /\ \E key \in {"y", "Y", "n", "N", "Esc"} : Tick(key)]_vars

\* C5: in every state found_folders is the number of selected directories
\* and selected_size_gb is the sum of their sizes.
C5_AggregatesConsistent ==
    /\ app.scan_results.found_folders = Cardinality(SelectedIndexes(app.dirs_to_clean))
    /\ app.scan_results.selected_size_gb =
           SizeOver(app.dirs_to_clean, SelectedIndexes(app.dirs_to_clean))

\* The place of the Result for `path` among the Results received.
Discovery(path) ==
    CHOOSE k \in 1..Len(DirInfos(observed)) : DirInfos(observed)[k].path = path

\* C6: dirs_to_clean holds exactly the directories of the Results received
\* so far, in ascending order of modified_days_ago, those of equal age in
\* the order they were received.
C6_StableAscendingSort ==
    LET dirs == app.dirs_to_clean
        received == DirInfos(observed)
    IN  /\ Len(dirs) = Len(received)
        /\ \A k \in 1..Len(received) :
               \E i \in 1..Len(dirs) : Unflagged(dirs[i]) = Unflagged(received[k])
        /\ \A i, j \in 1..Len(dirs) :
               i < j =>
                   /\ dirs[i].modified_days_ago <= dirs[j].modified_days_ago
                   /\ dirs[i].modified_days_ago = dirs[j].modified_days_ago
                          => Discovery(dirs[i].path) < Discovery(dirs[j].path)

\* Three directories were received, two of equal age, and the sort moved a
\* later one in front of an earlier one.
C6_Witness ==
    LET dirs == app.dirs_to_clean IN
    /\ Len(dirs) = 3
    /\ Len(DirInfos(observed)) = 3
    /\ \E i, j \in 1..3 : i < j /\ dirs[i].modified_days_ago = dirs[j].modified_days_ago
    /\ \E i, j \in 1..3 : i < j /\ Discovery(dirs[i].path) > Discovery(dirs[j].path)

\* The scenario was scanned to the end, uncancelled, with the default
\* ignore pattern.
ScenarioScanned ==
    /\ tree = Scenario
    /\ app.ignore_patterns = <<<<".", "*">>>>
    /\ app.state \in {"ScanComplete", "DeletionComplete"}
    /\ ~app.scan_stop_signal

\* What the scenario's scan finds, as discovered.
ScenarioNodeModules ==
    [path |-> "./node_modules", modified_days_ago |-> 40, selected |-> TRUE, size_bytes |-> 1200]
ScenarioTarget ==
    [path |-> "./sub/target", modified_days_ago |-> 5, selected |-> FALSE, size_bytes |-> 300]

\* Every update of the scenario's thread is outside ./sub/.hidden/.
HiddenNeverVisited ==
    \A w \in Threads : \A i \in 1..Len(workers[w].emitted) :
        LET u == workers[w].emitted[i] IN
        /\ u.type = "Path" => u.path # "./sub/.hidden/node_modules"
        /\ u.type = "Result" => u.dir_info.path # "./sub/.hidden/node_modules"

\* C7 (as claimed): after the scenario's scan the list is ./node_modules
\* (selected, 1200 bytes, 40 days) and then ./sub/target (not selected, 300
\* bytes, 5 days), and nothing under .hidden was visited.
C7_ScenarioAsClaimed ==
    ScenarioScanned =>
        /\ [i \in 1..Len(app.dirs_to_clean) |-> Unflagged(app.dirs_to_clean[i])]
               = <<Unflagged(ScenarioNodeModules), Unflagged(ScenarioTarget)>>
        /\ HiddenNeverVisited

\* C7 (amended): after the scenario's scan the list is ./sub/target (5 days,
\* 300 bytes, discovered not selected) and then ./node_modules (40 days,
\* 1200 bytes, discovered selected), and nothing under .hidden was visited.
C7_ScenarioAscending ==
    /\ tree = Scenario => HiddenNeverVisited
    /\ ScenarioScanned =>
        /\ [i \in 1..Len(app.dirs_to_clean) |-> Unflagged(app.dirs_to_clean[i])]
               = <<Unflagged(ScenarioTarget), Unflagged(ScenarioNodeModules)>>
        /\ DirInfos(observed) = <<ScenarioNodeModules, ScenarioTarget>>

\* The scenario's scan has ended with both directories listed, the ignored
\* directory having been passed.
C7_Witness ==
    /\ ScenarioScanned
    /\ Len(app.dirs_to_clean) = 2
    /\ \E i \in 1..Len(observed) : observed[i] = PathUpdate("./sub/.hidden")

\* The paths of the selected directories, in list order.
SelectedPaths(dirs) ==
    LET IsSelected(d) == d.selected
        sel == SelectSeq(dirs, IsSelected)
    IN  [i \in 1..Len(sel) |-> sel[i].path]

\* C8: in DeletionComplete, trash::delete was called once for every selected
\* directory, in list order, whatever the outcome of the earlier calls, and
\* the summary is the number of the calls that succeeded and the summed
\* size_bytes of their directories.
C8_TrashEverySelected ==
    app.state = "DeletionComplete" =>
        LET dirs == app.dirs_to_clean
            succeeded == {i \in SelectedIndexes(dirs) :
                             \E c \in 1..Len(trash_calls) :
                                 trash_calls[c].path = dirs[i].path /\ trash_calls[c].ok}
        IN  /\ [c \in 1..Len(trash_calls) |-> trash_calls[c].path] = SelectedPaths(dirs)
            /\ app.deletion_summary = Some(<<Cardinality(succeeded), SizeOver(dirs, succeeded)>>)

\* A deletion in which a call failed and a later call succeeded.
C8_Witness ==
    /\ app.state = "DeletionComplete"
    /\ \E i, j \in 1..Len(trash_calls) : i < j /\ ~trash_calls[i].ok /\ trash_calls[j].ok

\* C9: every Result a scan thread has sent carries
\* selected = (modified_days_ago > 30).
C9_SelectedIffOlderThan30 ==
    \A w \in Threads : \A i \in 1..Len(workers[w].emitted) :
        LET u == workers[w].emitted[i] IN
        u.type = "Result" =>
            (u.dir_info.selected <=> u.dir_info.modified_days_ago > AutoSelectDays)

\* C10: once a scan thread has failed to compile its patterns, the workflow
\* is not in Scanning (the failure has reached the foreground).
C10_MalformedPatternFailsFast ==
    \A w \in Threads :
        (~PatternsCompile(workers[w].ignore_patterns) /\ workers[w].pc = "panicked")
            => app.state # "Scanning"

\* The entries of the tree scanned, whatever their modification times.
WideShape == WideTree(DaysAgo(1), DaysAgo(1), DaysAgo(1))
Shape == IF tree.shape = "scenario" THEN ScenarioTree ELSE WideShape

\* The directory's bare name (none for the root) matches one of the thread's
\* ignore patterns.
IsIgnored(t, path) ==
    /\ Shape[path].kind = "dir"
    /\ \E i \in 1..Len(t.ignore_patterns) :
           PatternMatches(t.ignore_patterns[i], IF path = Root THEN <<>> ELSE Shape[path].name)

\* The directory's name is in the thread's match-name list.
IsMatched(t, path) ==
    Shape[path].kind = "dir" /\ SeqContains(t.folders_to_clean, Shape[path].name)

\* The proper descendants of `path` in the tree.
RECURSIVE Under(_)
Under(path) ==
    LET children == {Shape[path].children[i] : i \in 1..Len(Shape[path].children)}
    IN  children \cup UNION {Under(c) : c \in children}

\* The paths of the Path updates, and of the Result updates, among `updates`.
PathsOf(updates) ==
    {updates[i].path : i \in {j \in 1..Len(updates) : updates[j].type = "Path"}}
ResultPathsOf(updates) ==
    {updates[i].dir_info.path : i \in {j \in 1..Len(updates) : updates[j].type = "Result"}}

\* C11: for every directory a scan thread has visited whose bare name matches
\* an ignore pattern, the thread has sent no Result for it and neither a Path
\* nor a Result for any of its descendants.
C11_IgnoredIsPruned ==
    \A w \in Threads : \A path \in DOMAIN Shape :
        LET t == workers[w] IN
        (path \in PathsOf(t.emitted) /\ IsIgnored(t, path)) =>
            /\ path \notin ResultPathsOf(t.emitted)
            /\ Under(path) \cap (PathsOf(t.emitted) \cup ResultPathsOf(t.emitted)) = {}

\* A scan has run to its end past an ignored directory holding a directory,
\* and past an ignored directory whose name is also a match name.
C11_Witness ==
    \E w \in Threads :
        LET t == workers[w] IN
        /\ t.pc = "exited"
        /\ ~app.scan_stop_signal
        /\ \E path \in PathsOf(t.emitted) :
               IsIgnored(t, path) /\ ~IsMatched(t, path)
               /\ \E c \in Under(path) : Shape[c].kind = "dir"
        /\ \E path \in PathsOf(t.emitted) :
               IsIgnored(t, path) /\ IsMatched(t, path)
               /\ \E c \in Under(path) : Shape[c].kind = "dir"

\* C12: no scan thread has sent two Results for one path, and none has sent
\* a Path or a Result for a proper descendant of a directory whose name is in
\* its match-name list.
C12_MatchedAreLeaves ==
    \A w \in Threads :
        LET t == workers[w] IN
        /\ \A i, j \in 1..Len(t.emitted) :
               (i < j /\ t.emitted[i].type = "Result" /\ t.emitted[j].type = "Result")
                   => t.emitted[i].dir_info.path # t.emitted[j].dir_info.path
        /\ \A path \in DOMAIN Shape :
               IsMatched(t, path) =>
                   Under(path) \cap (PathsOf(t.emitted) \cup ResultPathsOf(t.emitted)) = {}

\* A scan has run to its end and has reported a directory that holds another
\* match, together with two further matches.
C12_Witness ==
    \E w \in Threads :
        LET t == workers[w] IN
        /\ t.pc = "exited"
        /\ ~app.scan_stop_signal
        /\ Cardinality(ResultPathsOf(t.emitted)) = 3
        /\ \E path \in ResultPathsOf(t.emitted) :
               \E c \in Under(path) : IsMatched(t, c)

\* The scan thread has taken a step: its position, its iterator or what it
\* has sent changes.
ThreadMoves(w) ==
    \/ workers'[w].pc # workers[w].pc
    \/ workers'[w].it # workers[w].it
    \/ workers'[w].emitted # workers[w].emitted

\* The updates the body of the loop may send for the entry `path`.
EntryUpdates(path, sent) ==
    \/ sent = <<>>
    \/ sent = <<PathUpdate(path)>>
    \/ /\ Len(sent) = 2
       /\ sent[1] = PathUpdate(path)
       /\ sent[2].type = "Result"
       /\ sent[2].dir_info.path = path

\* C13: once the stop signal is set, a scan thread (whose patterns compiled)
\* at the head of its loop takes no further entry: its next step sends Done
\* and ends it; a thread in the body of the loop sends updates for the entry
\* it has taken only, and is then at the head of the loop.
C13_StopIsReadBeforeEachEntry ==
    [][\A w \in Threads :
        LET t == workers[w]
            sent == SubSeq(workers'[w].emitted, Len(t.emitted) + 1, Len(workers'[w].emitted))
        IN  (app.scan_stop_signal /\ PatternsCompile(t.ignore_patterns) /\ ThreadMoves(w)) =>
                /\ t.pc = "loop" =>
                       workers'[w].pc = "exited" /\ sent = <<DoneUpdate>>
                /\ t.pc = "entry" =>
                       workers'[w].pc = "loop" /\ EntryUpdates(t.entry.val, sent)]_vars

\* The directories an uncancelled scan is to visit: those with no ignored
\* and no matched directory above them.
ToVisit(t) ==
    {path \in DOMAIN Shape : Shape[path].kind = "dir"}
        \ UNION {Under(path) : path \in {q \in DOMAIN Shape : IsIgnored(t, q) \/ IsMatched(t, q)}}

\* C14: a scan thread (whose patterns compiled) that has ended without the
\* stop signal set has sent a Path for every directory with no ignored and no
\* matched directory above it, a Result for every such directory that is
\* matched, not ignored and whose metadata can be read, and Done last.
C14_EntryErrorsAreNotFatal ==
    \A w \in Threads :
        LET t == workers[w] IN
        (PatternsCompile(t.ignore_patterns) /\ Ended(t) /\ ~app.scan_stop_signal) =>
            /\ PathsOf(t.emitted) = ToVisit(t)
            /\ ResultPathsOf(t.emitted) =
                   {path \in ToVisit(t) :
                        IsMatched(t, path) /\ ~IsIgnored(t, path) /\ Shape[path].meta_ok}
            /\ t.emitted # <<>> /\ t.emitted[Len(t.emitted)] = DoneUpdate

\* The edges of the workflow.
StateEdges ==
    {<<"Scanning", "ScanComplete">>, <<"Scanning", "Stopping">>,
     <<"Stopping", "ScanComplete">>, <<"ScanComplete", "DeletionComplete">>}
Edge(from, to) == from = to \/ <<from, to>> \in StateEdges

\* C15: in every iteration of the loop, the state after the update taken
\* from the channel, and then the state after the key, is the state before
\* or is reached from it by an edge of the workflow.
C15_StateEdges ==
    [][app' # app =>
          /\ Edge(app.state, AfterReceive.state)
          /\ Edge(AfterReceive.state, app'.state)]_vars

\* The list is shown and no confirmation is pending: the keys go to the list.
ListKeysAccepted == app.state = "ScanComplete" /\ ~app.confirm_action.some

\* The cursor is on a directory of the list.
CursorValid ==
    app.dir_list_state.some /\ app.dir_list_state.val < Len(app.dirs_to_clean)

\* The selected flag the directory carried when it was received.
DiscoveredFlag(path) == DirInfos(observed)[Discovery(path)].selected

\* C16: a Space key with the list shown and the cursor on a directory flips
\* the selected flag of that directory and changes nothing else of the list,
\* nor total_folders, total_size_gb or the state.
C16_ToggleFrame ==
    [][(ListKeysAccepted /\ CursorValid /\ Tick("Space")) =>
          /\ app'.dirs_to_clean =
                 [app.dirs_to_clean EXCEPT ![app.dir_list_state.val + 1].selected = ~@]
          /\ app'.scan_results.total_folders = app.scan_results.total_folders
          /\ app'.scan_results.total_size_gb = app.scan_results.total_size_gb
          /\ app'.state = app.state
          /\ app'.dir_list_state = app.dir_list_state]_vars

\* Of three directories listed, the one under the cursor, not the first, is
\* the only one whose flag is not the one it was received with.
C16_Witness ==
    /\ ListKeysAccepted
    /\ CursorValid
    /\ Len(app.dirs_to_clean) = 3
    /\ app.dir_list_state.val > 0
    /\ \A i \in 1..3 :
           (app.dirs_to_clean[i].selected # DiscoveredFlag(app.dirs_to_clean[i].path))
               <=> i = app.dir_list_state.val + 1

NoneSelected(a) ==
    /\ \A i \in 1..Len(a.dirs_to_clean) : ~a.dirs_to_clean[i].selected
    /\ a.scan_results.found_folders = 0

\* C18: with the list shown, the state a 'd' key leaves is left unchanged by
\* a second 'd' key and has no directory selected and a selected count of 0;
\* a 'd' key on the state an 'a' key leaves gives such a state too.
C18_DeselectAllIdempotent ==
    [][ListKeysAccepted =>
          /\ Tick("d") =>
                 /\ handle_key_event(app', "d", {}) = app'
                 /\ NoneSelected(app')
          /\ Tick("a") => NoneSelected(handle_key_event(app', "d", {}))]_vars

\* Three directories are listed, none selected, of which one was received
\* selected.
C18_Witness ==
    /\ ListKeysAccepted
    /\ Len(app.dirs_to_clean) = 3
    /\ NoneSelected(app)
    /\ app.scan_results.selected_size_gb = 0
    /\ \E i \in 1..3 : DiscoveredFlag(app.dirs_to_clean[i].path)

\* C19: with the list shown and the cursor on a directory, a Space key on
\* the state a Space key leaves gives back the selected flags, found_folders
\* and selected_size_gb of the state before the first.
C19_DoubleToggleRestores ==
    [][(ListKeysAccepted /\ CursorValid /\ Tick("Space")) =>
          LET twice == handle_key_event(app', "Space", {}) IN
          /\ twice.dirs_to_clean = app.dirs_to_clean
          /\ twice.scan_results.found_folders = app.scan_results.found_folders
          /\ twice.scan_results.selected_size_gb = app.scan_results.selected_size_gb]_vars

\* C20: whenever a "Move N selected items to trash" confirmation is pending,
\* the state is ScanComplete, at least one directory is selected and N is
\* the number of directories selected.
C20_CleanConfirmationCountsSelected ==
    (app.confirm_action.some /\ StartsWithMove(app.confirm_action.val)) =>
        /\ app.state = "ScanComplete"
        /\ SelectedIndexes(app.dirs_to_clean) # {}
        /\ app.confirm_action.val = MoveLabel(Cardinality(SelectedIndexes(app.dirs_to_clean)))

\* A confirmation to move 2 items is pending for a list of three in which
\* the selection is no longer the one received.
C20_Witness ==
    /\ app.confirm_action = Some(MoveLabel(2))
    /\ Len(app.dirs_to_clean) = 3
    /\ \E i \in 1..3 :
           app.dirs_to_clean[i].selected # DiscoveredFlag(app.dirs_to_clean[i].path)

\* An iteration of the loop has taken an update or changed the App.
LoopStep == app' # app \/ observed' # observed

\* C21: a key n, N or Esc while a confirmation is pending clears the
\* confirmation and changes nothing else of the App (state, stop signal,
\* list, aggregates, cursor are those left by the update the iteration took),
\* and trash::delete is not called.
C21_DeclineOnlyClears ==
    [][(app.confirm_action.some /\ \E key \in {"n", "N", "Esc"} : Tick(key)) =>
          /\ app' = [AfterReceive EXCEPT !.confirm_action = None]
          /\ trash_calls' = trash_calls]_vars

\* A stop confirmation is pending during a scan that has listed two
\* directories and whose thread is still running.
C21_Witness ==
    /\ app.confirm_action = Some(StopLabel)
    /\ app.state = "Scanning"
    /\ Len(app.dirs_to_clean) = 2
    /\ \E w \in Threads : ~Ended(workers[w])

\* C22: an iteration of the loop that handles its key in Stopping leaves the
\* App as the update it took left it, whatever the key, and the state leaves
\* Stopping only in an iteration that takes Done, for ScanComplete.
C22_StoppingIgnoresInput ==
    [][(app.state = "Stopping" /\ LoopStep) =>
          /\ AfterReceive.state = "Stopping" => app' = AfterReceive
          /\ app'.state # "Stopping" =>
                 Received = <<DoneUpdate>> /\ AfterReceive.state = "ScanComplete"]_vars

\* The scan is stopping with a directory listed, its thread still running.
C22_Witness ==
    /\ app.state = "Stopping"
    /\ Len(app.dirs_to_clean) >= 1
    /\ \E w \in Threads : ~Ended(workers[w])

\* C23: in DeletionComplete a key y, Y or Enter sets should_exit, no step
\* changes anything else of the App or calls trash::delete, and the state
\* stays DeletionComplete.
C23_DeletionCompleteIsTerminal ==
    [][app.state = "DeletionComplete" =>
          /\ app'.state = "DeletionComplete"
          /\ trash_calls' = trash_calls
          /\ \/ app' = app
             \/ /\ app' = [app EXCEPT !.should_exit = TRUE]
                /\ \E key \in {"y", "Y", "Enter"} : Tick(key)
          /\ \A key \in {"y", "Y", "Enter"} : Tick(key) => app'.should_exit]_vars

\* The deletion was acknowledged.
C23_Witness == app.state = "DeletionComplete" /\ app.should_exit

\* floor(((now - t) mod 2^64) / 86400) mod 2^32 for the modification time
\* `modified`, t being 0 when it is unavailable: computed on the integers for
\* a time not after `now`, and worked out by hand for the two times after it
\* (2^64 - 10 seconds is 213503982334601 days, which is 49710 * 2^32 +
\* 1158050441; 2^64 + 1800000000 - 100057357522716 seconds is
\* 213502824284167 days, which is 49710 * 2^32 + 7).
ExpectedAgeDays(modified) ==
    IF modified.kind = "err" THEN NowSecs \div 86400
    ELSE IF modified = NearFuture THEN 1158050441
    ELSE IF modified = FarFuture THEN 7
    ELSE (NowSecs - (modified.secs[1] + 65536 * modified.secs[2])) \div 86400

C27_DoneEndsSession ==
    /\ [](app.state \in {"ScanComplete", "DeletionComplete"} =>
             ~app.scan_receiver.some /\ ~app.current_scan_path.some)
    /\ [][(Received = <<DoneUpdate>> /\ LoopStep) =>
             /\ AfterReceive.state = "ScanComplete"
             /\ ~app'.scan_receiver.some
             /\ ~app'.current_scan_path.some]_vars

\* Done was received after the paths and the results of a whole scan.
C27_Witness ==
    /\ app.state = "ScanComplete"
    /\ ~app.scan_receiver.some
    /\ Len(observed) > 3
    /\ observed[Len(observed)] = DoneUpdate
    /\ observed[Len(observed) - 1].type = "Path"

\* C28: what the loop has received is, in order, the beginning of what the
\* scan thread has sent, the loop takes at most one update in an iteration,
\* and once the scan is complete the list holds the directory of every
\* Result the thread has sent, each once, and nothing else.
C28_NoResultLostOrDuplicated ==
    /\ [](\A w \in Threads :
             LET sent == workers[w].emitted
                 results == DirInfos(sent)
                 dirs == app.dirs_to_clean
             IN  /\ Len(observed) <= Len(sent)
                 /\ observed = SubSeq(sent, 1, Len(observed))
                 /\ app.state \in {"ScanComplete", "DeletionComplete"} =>
                        /\ Len(dirs) = Len(results)
                        /\ \A k \in 1..Len(results) :
                               Cardinality({i \in 1..Len(dirs) :
                                   Unflagged(dirs[i]) = Unflagged(results[k])}) = 1)
    /\ [][Len(observed') <= Len(observed) + 1]_vars

\* A scan is complete whose thread sent three Results, and the three
\* directories are listed.
C28_Witness ==
    /\ app.state = "ScanComplete"
    /\ Len(app.dirs_to_clean) = 3
    /\ \E w \in Threads :
           workers[w].pc = "exited" /\ Len(DirInfos(workers[w].emitted)) = 3

\* C29: the trash::delete calls of an iteration are for directories that
\* are selected when its key is handled, and over the whole run no path is
\* passed to trash::delete twice.
C29_TrashOnlySelectedOnce ==
    /\ [][trash_calls' # trash_calls =>
             \A c \in (Len(trash_calls) + 1)..Len(trash_calls') :
                 \E i \in SelectedIndexes(AfterReceive.dirs_to_clean) :
                     AfterReceive.dirs_to_clean[i].path = trash_calls'[c].path]_vars
    /\ [](\A c, e \in 1..Len(trash_calls) :
             c # e => trash_calls[c].path # trash_calls[e].path)

\* Of three directories listed, two were passed to trash::delete and the
\* third, not selected, was not.
C29_Witness ==
    /\ app.state = "DeletionComplete"
    /\ Len(app.dirs_to_clean) = 3
    /\ Len(trash_calls) = 2
    /\ Cardinality(SelectedIndexes(app.dirs_to_clean)) = 2

\* C30: an iteration of the loop that handles its key in Scanning leaves the
\* App as the update it took left it, but for the pending confirmation, the
\* stop signal, the state and should_exit; and in Scanning every directory
\* listed has the selected flag it was received with.
C30_ScanningKeysFrame ==
    /\ [][(AfterReceive.state = "Scanning" /\ LoopStep) =>
             app' = [AfterReceive EXCEPT !.confirm_action = app'.confirm_action,
                                         !.scan_stop_signal = app'.scan_stop_signal,
                                         !.state = app'.state,
                                         !.should_exit = app'.should_exit]]_vars
    /\ [](app.state = "Scanning" =>
             \A i \in 1..Len(app.dirs_to_clean) :
                 app.dirs_to_clean[i].selected = DiscoveredFlag(app.dirs_to_clean[i].path))

\* Three directories are listed while the scan is still running, no
\* confirmation being pending.
C30_Witness ==
    /\ app.state = "Scanning"
    /\ ~app.confirm_action.some
    /\ Len(app.dirs_to_clean) = 3
    /\ \E w \in Threads : ~Ended(workers[w])

\* A step in which start_scan runs: a scan thread is spawned.
ScanStarts == Len(workers') > Len(workers)

\* C24: right after start_scan the list is empty and total_folders,
\* found_folders, total_size_gb and the selected size are all zero.
C24_StartScanClears ==
    [][ScanStarts =>
          /\ app'.dirs_to_clean = <<>>
          /\ app'.scan_results = ScanResultsDefault]_vars

\* C25: at most one scan thread has not ended, and start_scan runs only when
\* every thread started before has ended (it has sent its Done and can
\* neither send nor read the stop signal any more).
C25_OneWorkerAtATime ==
    /\ [](Cardinality({w \in Threads : ~Ended(workers[w])}) <= 1)
    /\ [][ScanStarts =>
             \A w \in Threads :
                 /\ workers[w].pc = "exited"
                 /\ workers[w].emitted[Len(workers[w].emitted)] = DoneUpdate]_vars

\* A second scan is running after a deletion in which a directory was moved
\* to the trash; the thread of the first has ended.
C25_Witness ==
    /\ Len(workers) = 2
    /\ workers[1].pc = "exited"
    /\ workers[2].pc = "entry"
    /\ Trashed # {}
    /\ app.state = "Scanning"

\* C31: whenever the list of directories is not empty, the cursor is set and
\* is an index of the list, also after a scan was started again.
C31_CursorOnListedDirectory == app.dirs_to_clean # <<>> => CursorValid

====
